---- MODULE Spec2Model ----
(***************************************************************************)
(* AutoSub: the subtitle pipeline of src/subtitle_generator.py.            *)
(*                                                                         *)
(* Text is a sequence of one-character strings, so that the SRT writer and *)
(* the SRT parser work on the characters of the file, as the code does.    *)
(* A time is a whole number of ticks of 10^-4 s: fine enough to show the   *)
(* truncation to milliseconds, small enough for hours to fit in an Int.    *)
(* format_time computes in binary floating point; on a time that is a      *)
(* whole number of milliseconds the code's (seconds % 1) * 1000 may fall   *)
(* just below the integer and print one millisecond less (1.001 prints     *)
(* 00:00:01,000).  The arithmetic here is exact, and the time points of    *)
(* the model are ones on which the code's floating point result is exact.  *)
(***************************************************************************)
EXTENDS Integers, Sequences, FiniteSets, TLC

VARIABLES
    files,        \* the working directory: path -> content, or NoFile
    active,       \* the callers that run generate_subtitles in this process
    pc,           \* per caller: where its call of generate_subtitles stands
    call,         \* per caller: the arguments of the call, defaults resolved
    transcription_result,  \* per caller: what transcribe_audio returned
    exc,          \* per caller: the exception in flight or being handled, then its __context__ chain
    log,          \* per caller: the pipeline steps invoked so far, each with its outcome
    attempts,     \* per caller: the compositing strategies tried in this burn, in order
    runs,         \* per caller: calls of generate_subtitles started
    segments,     \* codec: transcription_result['segments'] given to create_srt_file
    edited,       \* codec: the blocks of a hand-edited document, <<>> for a generated one
    subtitles,    \* codec: what parse_srt_file returned or raised, or Pending
    cpc,          \* codec: position of the caller of the codec
    timecode,     \* codec: the number given to format_time and what came back, or NoTimecode
    request,      \* HTTP: the request being served, or NoRequest
    hpc,          \* HTTP: position of the handler serving it
    cmd,          \* HTTP: the command line given to subprocess.run, or NoCmd
    invoked,      \* HTTP: the compositing strategies invoked for the request, in order
    composite,    \* HTTP: what the in-process renderer parsed, built and layered, or NoComposite
    response      \* HTTP: the response sent, or NoResponse

pipeline_vars == <<active, pc, call, transcription_result, exc, log, attempts, runs>>
codec_vars == <<segments, edited, subtitles, cpc, timecode>>
http_vars == <<request, hpc, cmd, invoked, composite, response>>
vars == <<files, active, pc, call, transcription_result, exc, log, attempts, runs,
          segments, edited, subtitles, cpc, timecode,
          request, hpc, cmd, invoked, composite, response>>

\* ------------------------------------------------------------------ bounds
MaxSegs == 2
MaxBlocks == 3
MaxRuns == 2
MaxClips == 2

\* ------------------------------------------------------------- characters
NL == "\n"
SP == " "
Digits == <<"0", "1", "2", "3", "4", "5", "6", "7", "8", "9">>
DigitSet == {Digits[i] : i \in 1..10}
DigitVal(c) == (CHOOSE i \in 1..10 : Digits[i] = c) - 1
\* str.strip() with no argument strips whitespace
Whitespace == {SP, NL}
\* the separator of the time line, ' --> '
Arrow == <<SP, "-", "-", ">", SP>>
BlankLine == <<NL, NL>>

\* the unit of time: a tenth of a millisecond
TicksPerMs == 10
TicksPerSecond == 1000 * TicksPerMs

\* ---------------------------------------------------------- str methods
\* first index at which sep occurs in s, 0 when it does not
IndexOf(s, sep) ==
    LET hits == {i \in 1..(Len(s) - Len(sep) + 1) :
                    SubSeq(s, i, i + Len(sep) - 1) = sep}
    IN  IF hits = {} THEN 0 ELSE CHOOSE i \in hits : \A j \in hits : i <= j

\* sep in s
Contains(s, sep) == IndexOf(s, sep) # 0

\* s.split(sep): left to right, non-overlapping, empty pieces kept
RECURSIVE Split(_, _)
Split(s, sep) ==
    LET i == IndexOf(s, sep)
    IN  IF i = 0 THEN <<s>>
        ELSE <<SubSeq(s, 1, i - 1)>> \o Split(SubSeq(s, i + Len(sep), Len(s)), sep)

\* sep.join(parts)
RECURSIVE Join(_, _)
Join(parts, sep) ==
    IF parts = <<>> THEN <<>>
    ELSE IF Len(parts) = 1 THEN parts[1]
    ELSE parts[1] \o sep \o Join(Tail(parts), sep)

\* s.strip()
Strip(s) ==
    LET keep == {i \in 1..Len(s) : s[i] \notin Whitespace}
    IN  IF keep = {} THEN <<>>
        ELSE LET lo == CHOOSE i \in keep : \A j \in keep : i <= j
                 hi == CHOOSE i \in keep : \A j \in keep : j <= i
             IN  SubSeq(s, lo, hi)

\* s.replace(a, b) for single characters
Replace(s, a, b) == [i \in 1..Len(s) |-> IF s[i] = a THEN b ELSE s[i]]

\* str(n) for n >= 0
RECURSIVE Decimal(_)
Decimal(n) ==
    IF n < 10 THEN <<Digits[n + 1]>>
    ELSE Decimal(n \div 10) \o <<Digits[(n % 10) + 1]>>

\* f"{n:0{width}d}": sign first, then zeros up to the width
RECURSIVE ZeroPad(_, _)
ZeroPad(s, width) == IF Len(s) >= width THEN s ELSE ZeroPad(<<"0">> \o s, width)

FormatD(n, width) ==
    IF n < 0 THEN <<"-">> \o ZeroPad(Decimal(-n), width - 1)
    ELSE ZeroPad(Decimal(n), width)

\* ------------------------------------------------------- time-code codec
\* int(s): surrounding whitespace and a sign are accepted, then digits only
RECURSIVE DigitsValue(_)
DigitsValue(s) ==
    IF s = <<>> THEN 0
    ELSE DigitsValue(SubSeq(s, 1, Len(s) - 1)) * 10 + DigitVal(s[Len(s)])

AllDigits(s) == \A i \in 1..Len(s) : s[i] \in DigitSet

Unsigned(s) == IF s # <<>> /\ s[1] \in {"+", "-"} THEN Tail(s) ELSE s
Sign(s) == IF s # <<>> /\ s[1] = "-" THEN -1 ELSE 1

ParseInt(str) ==
    LET body == Unsigned(Strip(str))
    IN  IF body # <<>> /\ AllDigits(body)
        THEN [exc |-> "none", value |-> Sign(Strip(str)) * DigitsValue(body)]
        ELSE [exc |-> "ValueError", value |-> 0]

\* the first four decimals of a fraction, in ticks
FractionTicks(frac) ==
    LET padded == frac \o <<"0", "0", "0", "0">>
    IN  DigitsValue(SubSeq(padded, 1, 4))

\* float(s), in ticks: digits with at most one decimal point, not both sides empty
ParseFloat(str) ==
    LET body  == Unsigned(Strip(str))
        parts == Split(body, <<".">>)
        whole == parts[1]
        frac  == IF Len(parts) = 2 THEN parts[2] ELSE <<>>
    IN  IF /\ Len(parts) <= 2
           /\ AllDigits(whole) /\ AllDigits(frac)
           /\ whole \o frac # <<>>
        THEN [exc |-> "none",
              value |-> Sign(Strip(str))
                          * (DigitsValue(whole) * TicksPerSecond + FractionTicks(frac))]
        ELSE [exc |-> "ValueError", value |-> 0]

\* a variant of format_time that rounds the milliseconds to the nearest
format_time_rounding(seconds) ==
    LET hours     == seconds \div (3600 * TicksPerSecond)
        remainder == seconds % (3600 * TicksPerSecond)
        minutes   == remainder \div (60 * TicksPerSecond)
        secs      == remainder % (60 * TicksPerSecond)
        milliseconds == ((secs % TicksPerSecond) + 5) \div TicksPerMs
    IN  FormatD(hours, 2) \o <<":">> \o FormatD(minutes, 2) \o <<":">>
          \o FormatD(secs \div TicksPerSecond, 2) \o <<",">> \o FormatD(milliseconds, 3)

\* SubtitleGenerator.format_time: HH:MM:SS,mmm, milliseconds truncated.
\* divmod floors, so a negative time gets a negative hours field.
format_time(seconds) ==
    LET hours     == seconds \div (3600 * TicksPerSecond)
        remainder == seconds % (3600 * TicksPerSecond)
        minutes   == remainder \div (60 * TicksPerSecond)
        secs      == remainder % (60 * TicksPerSecond)
        milliseconds == (secs % TicksPerSecond) \div TicksPerMs
    IN  FormatD(hours, 2) \o <<":">> \o FormatD(minutes, 2) \o <<":">>
          \o FormatD(secs \div TicksPerSecond, 2) \o <<",">> \o FormatD(milliseconds, 3)

\* SubtitleGenerator.parse_time_string: parts[0..2] of the ':' split; a
\* missing part is an IndexError, a non-numeric one a ValueError, and
\* parts beyond the third are ignored.
parse_time_string(time_str) ==
    LET parts == Split(Replace(time_str, ",", "."), <<":">>)
    IN  IF ParseInt(parts[1]).exc # "none" THEN [exc |-> "ValueError", value |-> 0]
        ELSE IF Len(parts) < 2 THEN [exc |-> "IndexError", value |-> 0]
        ELSE IF ParseInt(parts[2]).exc # "none" THEN [exc |-> "ValueError", value |-> 0]
        ELSE IF Len(parts) < 3 THEN [exc |-> "IndexError", value |-> 0]
        ELSE IF ParseFloat(parts[3]).exc # "none" THEN [exc |-> "ValueError", value |-> 0]
        ELSE [exc |-> "none",
              value |-> ParseInt(parts[1]).value * 3600 * TicksPerSecond
                          + ParseInt(parts[2]).value * 60 * TicksPerSecond
                          + ParseFloat(parts[3]).value]

\* -------------------------------------------------- subtitle-document codec
\* the loop of create_srt_file: i is enumerate's counter, f the file so far
RECURSIVE write_segments(_, _, _)
write_segments(f, rest, i) ==
    IF rest = <<>> THEN f
    ELSE LET segment    == Head(rest)
             start_time == format_time(segment.start)
             end_time   == format_time(segment.end)
             text       == Strip(segment.text)
             f1 == f \o Decimal(i) \o <<NL>>
             f2 == f1 \o start_time \o Arrow \o end_time \o <<NL>>
             f3 == f2 \o text \o <<NL, NL>>
         IN  write_segments(f3, Tail(rest), i + 1)

\* a variant of create_srt_file that numbers the blocks from 0
create_srt_file_from0(segs) == write_segments(<<>>, segs, 0)

\* SubtitleGenerator.create_srt_file: the text written to srt_path
create_srt_file(segs) == write_segments(<<>>, segs, 1)

Raised(e) == [exc |-> e, subtitles |-> <<>>]

\* a variant of the block loop that stops at the first block it cannot use
RECURSIVE parse_blocks_stopping(_, _)
parse_blocks_stopping(blocks, acc) ==
    IF blocks = <<>> THEN [exc |-> "none", subtitles |-> acc]
    ELSE LET lines == Split(Strip(Head(blocks)), <<NL>>)
         IN  IF Len(lines) >= 3 /\ Contains(lines[2], Arrow)
             THEN LET halves == Split(lines[2], Arrow)
                  IN  IF Len(halves) # 2 THEN Raised("ValueError")
                      ELSE LET start_time == parse_time_string(halves[1])
                               end_time   == parse_time_string(halves[2])
                           IN  IF start_time.exc # "none" THEN Raised(start_time.exc)
                               ELSE IF end_time.exc # "none" THEN Raised(end_time.exc)
                               ELSE parse_blocks_stopping(Tail(blocks),
                                       Append(acc, [start |-> start_time.value,
                                                    end   |-> end_time.value,
                                                    text  |-> Join(SubSeq(lines, 3, Len(lines)), <<NL>>)]))
             ELSE [exc |-> "none", subtitles |-> acc]

\* the loop of parse_srt_file over the blocks; acc is the list `subtitles`.
\* The unpacking of time_line.split(' --> ') raises ValueError unless it
\* has exactly two parts, and nothing catches what parse_time_string raises.
RECURSIVE parse_blocks(_, _)
parse_blocks(blocks, acc) ==
    IF blocks = <<>> THEN [exc |-> "none", subtitles |-> acc]
    ELSE LET lines == Split(Strip(Head(blocks)), <<NL>>)
         IN  IF Len(lines) >= 3 /\ Contains(lines[2], Arrow)
             THEN LET halves == Split(lines[2], Arrow)
                  IN  IF Len(halves) # 2 THEN Raised("ValueError")
                      ELSE LET start_time == parse_time_string(halves[1])
                               end_time   == parse_time_string(halves[2])
                           IN  IF start_time.exc # "none" THEN Raised(start_time.exc)
                               ELSE IF end_time.exc # "none" THEN Raised(end_time.exc)
                               ELSE parse_blocks(Tail(blocks),
                                       Append(acc, [start |-> start_time.value,
                                                    end   |-> end_time.value,
                                                    text  |-> Join(SubSeq(lines, 3, Len(lines)), <<NL>>)]))
             ELSE parse_blocks(Tail(blocks), acc)

\* SubtitleGenerator.parse_srt_file on the text of the file
parse_srt_file(content) == parse_blocks(Split(Strip(content), BlankLine), <<>>)

\* ------------------------------------------------------------ the files
\* A path is <<stem, rest>>, the file name stem ++ rest, so that the names
\* generate_subtitles derives from the video's name are computed, not listed.
Path(stem, rest) == <<stem, rest>>
None == <<>>

\* generate_subtitles: temp_audio_path = "temp_audio.wav"
temp_audio_path == Path("temp", "_audio.wav")
\* add_subtitles_to_video: temp_srt_path = "temp_subtitles.srt"
temp_srt_path == Path("temp", "_subtitles.srt")
\* create_srt_file: srt_path="subtitles.srt"
default_srt_path == Path("subtitles", ".srt")

\* the videos a caller may pass
Videos == {Path("video", ".mp4"), Path("temp", ".mp4")}
\* the output paths a caller may pass (example_usage.py), or None
RequestedVideoPaths == {None, Path("my", "_subtitled_video.mp4")}
RequestedSrtPaths == {None, Path("my", "_subtitles.srt")}

\* os.path.splitext(os.path.basename(video_path))[0]
base_name(video_path) == video_path[1]
DefaultOutputVideo(video_path) == Path(base_name(video_path), "_with_subtitles.mp4")
DefaultOutputSrt(video_path) == Path(base_name(video_path), "_subtitles.srt")

\* backend/main.py, the files of one request: the uploaded video
\* UPLOAD_DIR/<filename>, temp_<uuid4>.wav, OUTPUT_DIR/<uuid4>.srt and
\* OUTPUT_DIR/final_<filename>; a uuid4 name is a name no other file has
UploadDir(filename) == Path("uploads/" \o filename, ".mp4")
Uploads == {UploadDir("clip")}
temp_audio == Path("temp_uuid4", ".wav")
OutputDirSrt == Path("outputs/uuid4", ".srt")
OutputDirFinal(filename) == Path("outputs/final_" \o filename, ".mp4")
Filenames == {"clip", "gone"}
HttpPaths ==
    {temp_audio, OutputDirSrt}
      \cup {UploadDir(f) : f \in Filenames} \cup {OutputDirFinal(f) : f \in Filenames}

Paths ==
    Videos \cup {temp_audio_path, temp_srt_path, default_srt_path} \cup HttpPaths
      \cup {DefaultOutputVideo(v) : v \in Videos}
      \cup {DefaultOutputSrt(v) : v \in Videos}
      \cup (RequestedVideoPaths \ {None}) \cup (RequestedSrtPaths \ {None})

NoFile == [kind |-> "none"]
Video(name) == [kind |-> "video", of |-> name]
Audio(name) == [kind |-> "audio", of |-> name]
Partial == [kind |-> "partial"]
Srt(text) == [kind |-> "srt", text |-> text]
Subtitled(name, text, by) == [kind |-> "subtitled", of |-> name, text |-> text, by |-> by]

Exists(path) == files[path] # NoFile
Write(path, content) == [files EXCEPT ![path] = content]
Remove(path) == [files EXCEPT ![path] = NoFile]

InitialFiles == [path \in Paths |-> IF path \in Videos \cup Uploads THEN Video(base_name(path)) ELSE NoFile]

\* what the speech engine hears in each video
Transcript(name) ==
    IF name = "video"
    THEN << [start |-> 0, end |-> 15000, text |-> <<SP, "H", "i">>],
            [start |-> 15000, end |-> 30000, text |-> <<SP, "a", NL, "b">>] >>
    ELSE << [start |-> 0, end |-> 15000, text |-> <<SP, "Y", "o">>] >>

NoResult == [of |-> "none", segments |-> <<>>]

\* ------------------------------------------------------------ exceptions
\* An exception is [type, diag]: diag is the set of diagnostics its message
\* holds.  exc[p] is the exception in flight followed by its __context__
\* chain (Python links the exception being handled to one raised meanwhile).
NoExc == <<>>
Exc(type, diag) == [type |-> type, diag |-> diag]
RaiseDuring(e, handled) == <<e>> \o handled

\* --------------------------------------------------------- the pipeline
Procs == {1, 2}

StepOrder == <<"extract", "transcribe", "serialize", "burn">>
NextStep(step) ==
    CASE step = "extract" -> "transcribe"
      [] step = "transcribe" -> "serialize"
      [] step = "serialize" -> "burn"
      [] step = "burn" -> "finally"

\* a variant of the try block that goes on after a step that raised
AfterStep_swallowing(step, ok) == NextStep(step)

\* generate_subtitles: try ... finally with no except: a step that raises
\* leaves the try block
AfterStep(step, ok) == IF ok THEN NextStep(step) ELSE "finally"

Logged(p, step, ok) == [log EXCEPT ![p] = Append(@, [step |-> step, ok |-> ok])]

\* a variant of the cleanup that runs on the normal exit only
FinallyRemoves_on_success(p) ==
    call[p].cleanup_temp /\ Exists(temp_audio_path) /\ exc[p] = NoExc

\* generate_subtitles: if cleanup_temp and os.path.exists(temp_audio_path)
FinallyRemoves(p) == call[p].cleanup_temp /\ Exists(temp_audio_path)

\* Callers that run side by side each make one call and pass the video only
\* (generator.generate_subtitles(video_path), as app.py does): the optional
\* arguments keep their defaults, None and cleanup_temp=True.
Concurrent == Cardinality(active) > 1
RunsAllowed == IF Concurrent THEN 1 ELSE MaxRuns
OptionalPath(values) == IF Concurrent THEN {None} ELSE values
OptionalFlag == IF Concurrent THEN {TRUE} ELSE BOOLEAN

\* the call, with the default output paths set
Call(p) ==
    /\ p \in active
    /\ pc[p] \in {"idle", "returned", "raised"}
    /\ runs[p] < RunsAllowed
    /\ \E video_path \in Videos, output_video_path \in OptionalPath(RequestedVideoPaths),
          output_srt_path \in OptionalPath(RequestedSrtPaths),
          cleanup_temp \in OptionalFlag :
          call' = [call EXCEPT ![p] =
                     [video_path |-> video_path,
                      output_video_path |->
                          IF output_video_path = None
                          THEN DefaultOutputVideo(video_path) ELSE output_video_path,
                      output_srt_path |->
                          IF output_srt_path = None
                          THEN DefaultOutputSrt(video_path) ELSE output_srt_path,
                      cleanup_temp |-> cleanup_temp]]
    /\ pc' = [pc EXCEPT ![p] = "extract"]
    /\ runs' = [runs EXCEPT ![p] = @ + 1]
    /\ transcription_result' = [transcription_result EXCEPT ![p] = NoResult]
    /\ exc' = [exc EXCEPT ![p] = NoExc]
    /\ log' = [log EXCEPT ![p] = <<>>]
    /\ attempts' = [attempts EXCEPT ![p] = <<>>]
    /\ UNCHANGED <<files, active, codec_vars, http_vars>>

\* Step 1, extract_audio(video_path, temp_audio_path): a video without an
\* audio track raises before anything is written (video.audio is None); a
\* write that fails leaves what it wrote
ExtractAudio(p) ==
    /\ pc[p] = "extract"
    /\ \E outcome \in {"ok", "no_audio", "write_error"} :
          /\ files' = CASE outcome = "ok" ->
                             Write(temp_audio_path, Audio(files[call[p].video_path].of))
                        [] outcome = "write_error" -> Write(temp_audio_path, Partial)
                        [] outcome = "no_audio" -> files
          /\ exc' = [exc EXCEPT ![p] =
                       CASE outcome = "ok" -> NoExc
                         [] outcome = "write_error" -> <<Exc("OSError", {"extract_error"})>>
                         [] outcome = "no_audio" -> <<Exc("AttributeError", {"extract_error"})>>]
          /\ log' = Logged(p, "extract", outcome = "ok")
          /\ pc' = [pc EXCEPT ![p] = AfterStep("extract", outcome = "ok")]
    /\ UNCHANGED <<active, call, transcription_result, attempts, runs, codec_vars, http_vars>>

\* Step 2, transcribe_audio(temp_audio_path): the engine reads the file at
\* the path, whatever it holds by now
TranscribeAudio(p) ==
    /\ pc[p] = "transcribe"
    /\ LET audio == files[temp_audio_path]
       IN  \E outcome \in {"ok", "failed"} :
             /\ outcome = "ok" => audio.kind = "audio"
             /\ transcription_result' = [transcription_result EXCEPT ![p] =
                    IF outcome = "ok"
                    THEN [of |-> audio.of, segments |-> Transcript(audio.of)]
                    ELSE @]
             /\ exc' = [exc EXCEPT ![p] =
                    IF outcome = "ok" THEN NoExc
                    ELSE <<Exc("RuntimeError", {"transcribe_error"})>>]
             /\ log' = Logged(p, "transcribe", outcome = "ok")
             /\ pc' = [pc EXCEPT ![p] = AfterStep("transcribe", outcome = "ok")]
    /\ UNCHANGED <<files, active, call, attempts, runs, codec_vars, http_vars>>

\* Step 3, create_srt_file(transcription_result, output_srt_path)
SerializeSrt(p) ==
    /\ pc[p] = "serialize"
    /\ \E outcome \in {"ok", "io_error"} :
          /\ files' = IF outcome = "ok"
                      THEN Write(call[p].output_srt_path,
                                 Srt(create_srt_file(transcription_result[p].segments)))
                      ELSE files
          /\ exc' = [exc EXCEPT ![p] =
                       IF outcome = "ok" THEN NoExc
                       ELSE <<Exc("OSError", {"srt_write_error"})>>]
          /\ log' = Logged(p, "serialize", outcome = "ok")
          /\ pc' = [pc EXCEPT ![p] = AfterStep("serialize", outcome = "ok")]
    /\ UNCHANGED <<active, call, transcription_result, attempts, runs, codec_vars, http_vars>>

\* --------------------------------------------------- the compositing engine
Attempted(p, strategy, outcome, read) ==
    [attempts EXCEPT ![p] =
        Append(@, [strategy |-> strategy, outcome |-> outcome,
                   srt_path |-> temp_srt_path, read |-> read])]

\* Step 4 begins, add_subtitles_to_video: create_srt_file(transcription_result,
\* temp_srt_path), before the try block
BurnCreateTempSrt(p) ==
    /\ pc[p] = "burn"
    /\ \E outcome \in {"ok", "io_error"} :
          /\ files' = IF outcome = "ok"
                      THEN Write(temp_srt_path,
                                 Srt(create_srt_file(transcription_result[p].segments)))
                      ELSE files
          /\ exc' = [exc EXCEPT ![p] =
                       IF outcome = "ok" THEN NoExc
                       ELSE <<Exc("OSError", {"srt_write_error"})>>]
          /\ log' = IF outcome = "ok" THEN log ELSE Logged(p, "burn", FALSE)
          /\ pc' = [pc EXCEPT ![p] =
                       IF outcome = "ok" THEN "primary" ELSE AfterStep("burn", FALSE)]
    /\ UNCHANGED <<active, call, transcription_result, attempts, runs, codec_vars, http_vars>>

\* a variant in which a non-zero exit of the tool is not caught
AfterPrimary_exit_uncaught(outcome) ==
    CASE outcome = "ok" -> "burn_finally"
      [] outcome = "exit" -> "burn_finally"
      [] outcome = "missing" -> "inner_fallback"

\* where control goes after subprocess.run: add_subtitles_to_video_with_srt
\* re-raises a non-zero exit, which add_subtitles_to_video's except Exception
\* catches, and handles a missing binary itself
AfterPrimary(outcome) ==
    CASE outcome = "ok" -> "burn_finally"
      [] outcome = "exit" -> "outer_fallback"
      [] outcome = "missing" -> "inner_fallback"

\* add_subtitles_to_video_with_srt(video_path, temp_srt_path, output_path):
\* the tool burns the file at the path, exits non-zero, or is not installed
BurnPrimary(p) ==
    /\ pc[p] = "primary"
    /\ LET srt == files[temp_srt_path]
       IN  \E outcome \in {"ok", "exit", "missing"} :
             /\ outcome = "ok" => srt.kind = "srt"
             /\ files' = IF outcome = "ok"
                         THEN Write(call[p].output_video_path,
                                    Subtitled(files[call[p].video_path].of, srt.text, "ffmpeg"))
                         ELSE files
             /\ exc' = [exc EXCEPT ![p] =
                          CASE outcome = "ok" -> NoExc
                            [] outcome = "exit" ->
                                 RaiseDuring(Exc("Exception", {"ffmpeg_stderr"}),
                                             <<Exc("CalledProcessError", {"exit_status"})>>)
                            [] outcome = "missing" ->
                                 <<Exc("FileNotFoundError", {"ffmpeg_not_found"})>>]
             /\ attempts' = Attempted(p, "ffmpeg", outcome,
                                      IF outcome = "missing" THEN NoFile ELSE srt)
             /\ pc' = [pc EXCEPT ![p] = AfterPrimary(outcome)]
    /\ UNCHANGED <<active, call, transcription_result, log, runs, codec_vars, http_vars>>

\* add_subtitles_to_video_moviepy(video_path, temp_srt_path, output_path):
\* parses the file at the path and renders; whatever it raises is raised
\* while the primary's exception is being handled
MoviePy(p, on_failure) ==
    LET srt == files[temp_srt_path]
    IN  \E outcome \in {"ok", "failed"} :
          /\ outcome = "ok" => (srt.kind = "srt" /\ parse_srt_file(srt.text).exc = "none")
          /\ files' = IF outcome = "ok"
                      THEN Write(call[p].output_video_path,
                                 Subtitled(files[call[p].video_path].of, srt.text, "moviepy"))
                      ELSE files
          /\ exc' = [exc EXCEPT ![p] =
                       IF outcome = "ok" THEN NoExc
                       ELSE RaiseDuring(Exc("Exception", {"moviepy_error"}), @)]
          /\ attempts' = Attempted(p, "moviepy", outcome, srt)
          /\ pc' = [pc EXCEPT ![p] = IF outcome = "ok" THEN "burn_finally" ELSE on_failure]

\* the fallback inside add_subtitles_to_video_with_srt (except FileNotFoundError);
\* what it raises reaches add_subtitles_to_video's except Exception
InnerFallback(p) ==
    /\ pc[p] = "inner_fallback"
    /\ MoviePy(p, "outer_fallback")
    /\ UNCHANGED <<active, call, transcription_result, log, runs, codec_vars, http_vars>>

\* the fallback of add_subtitles_to_video (except Exception)
OuterFallback(p) ==
    /\ pc[p] = "outer_fallback"
    /\ MoviePy(p, "burn_finally")
    /\ UNCHANGED <<active, call, transcription_result, log, runs, codec_vars, http_vars>>

\* add_subtitles_to_video's finally: remove temp_srt_path if it exists, then
\* return or let the exception go on
BurnFinally(p) ==
    /\ pc[p] = "burn_finally"
    /\ files' = IF Exists(temp_srt_path) THEN Remove(temp_srt_path) ELSE files
    /\ log' = Logged(p, "burn", exc[p] = NoExc)
    /\ pc' = [pc EXCEPT ![p] = AfterStep("burn", exc[p] = NoExc)]
    /\ UNCHANGED <<active, call, transcription_result, exc, attempts, runs, codec_vars, http_vars>>

\* generate_subtitles' finally, then the return or the exception reaches the caller
Finally(p) ==
    /\ pc[p] = "finally"
    /\ files' = IF FinallyRemoves(p) THEN Remove(temp_audio_path) ELSE files
    /\ pc' = [pc EXCEPT ![p] = IF exc[p] = NoExc THEN "returned" ELSE "raised"]
    /\ UNCHANGED <<active, call, transcription_result, exc, log, attempts, runs, codec_vars, http_vars>>

generate_subtitles(p) ==
    \/ Call(p)
    \/ ExtractAudio(p)
    \/ TranscribeAudio(p)
    \/ SerializeSrt(p)
    \/ BurnCreateTempSrt(p)
    \/ BurnPrimary(p)
    \/ InnerFallback(p)
    \/ OuterFallback(p)
    \/ BurnFinally(p)
    \/ Finally(p)

NoCall == [video_path |-> None, output_video_path |-> None,
           output_srt_path |-> None, cleanup_temp |-> TRUE]

Pending == [exc |-> "pending", subtitles |-> <<>>]
NoTimecode == [seconds |-> 0, exc |-> "pending", value |-> <<>>]

\* no request is being served
NoRequest == [op |-> "none"]
NoCmd == [tool |-> "none"]
NoComposite == [subtitles |-> <<>>, built |-> <<>>, layers |-> <<>>]
NoResponse == [status_code |-> 0]
HttpOff ==
    /\ request = NoRequest /\ hpc = "off" /\ cmd = NoCmd
    /\ invoked = <<>> /\ composite = NoComposite /\ response = NoResponse

InitPipeline(callers) ==
    /\ files = InitialFiles
    /\ active = callers
    /\ pc = [p \in Procs |-> "idle"]
    /\ call = [p \in Procs |-> NoCall]
    /\ transcription_result = [p \in Procs |-> NoResult]
    /\ exc = [p \in Procs |-> NoExc]
    /\ log = [p \in Procs |-> <<>>]
    /\ attempts = [p \in Procs |-> <<>>]
    /\ runs = [p \in Procs |-> 0]

\* one caller, calling generate_subtitles again and again
Init ==
    /\ InitPipeline({1})
    /\ segments = <<>> /\ edited = <<>> /\ subtitles = Pending /\ cpc = "off"
    /\ timecode = NoTimecode
    /\ HttpOff

\* two callers in one process and one working directory
InitConc ==
    /\ InitPipeline(Procs)
    /\ segments = <<>> /\ edited = <<>> /\ subtitles = Pending /\ cpc = "off"
    /\ timecode = NoTimecode
    /\ HttpOff

Next == \E p \in Procs : generate_subtitles(p)

Spec == Init /\ [][Next]_vars
SpecConc == InitConc /\ [][Next]_vars

\* ------------------------------------------------- callers of the codec
\* start < end, one time with a fraction of a millisecond (1:02:03.0045)
TimePoints == {0, 15000, 37230045}
\* one line, surrounded by whitespace (as the engine returns it), two lines,
\* a blank line inside, empty
Texts == { <<"H", "i">>,
           <<SP, "H", "i", SP>>,
           <<"a", NL, "b">>,
           <<"a", NL, NL, "b">>,
           <<>> }
Segments ==
    {[start |-> s, end |-> e, text |-> t] :
        s \in TimePoints, e \in TimePoints, t \in Texts} \cap
    {seg \in [start : TimePoints, end : TimePoints, text : Texts] : seg.start < seg.end}
SegmentLists == UNION {[1..n -> Segments] : n \in 0..MaxSegs}

\* the blocks of a hand-edited document
TimeLine(s, e) == format_time(s) \o Arrow \o format_time(e)
Block(kind) ==
    CASE kind = "ok" ->
           Join(<< <<"1">>, TimeLine(0, 15000), <<"H", "i">> >>, <<NL>>)
      [] kind = "ok_point" ->
           Join(<< <<"7">>, Replace(TimeLine(15000, 37230040), ",", "."),
                   <<"a">>, <<"b">> >>, <<NL>>)
      [] kind = "one_line" -> <<"x">>
      [] kind = "two_lines" ->
           Join(<< <<"2">>, TimeLine(0, 15000) >>, <<NL>>)
      [] kind = "no_arrow" ->
           Join(<< <<"3">>, format_time(0) \o <<SP, "-", ">", SP>> \o format_time(15000),
                   <<"H", "i">> >>, <<NL>>)
      [] kind = "few_fields" ->
           Join(<< <<"4">>, <<"0", "0", ":", "0", "1", ",", "5", "0", "0">> \o Arrow
                              \o format_time(30000),
                   <<"H", "i">> >>, <<NL>>)
      [] kind = "not_a_number" ->
           Join(<< <<"5">>, <<"0", "0", ":", "x", "x", ":", "0", "1", ",", "5", "0", "0">>
                              \o Arrow \o format_time(30000),
                   <<"H", "i">> >>, <<NL>>)

\* what a well-formed block of the palette says
Meaning(kind) ==
    CASE kind = "ok" -> [start |-> 0, end |-> 15000, text |-> <<"H", "i">>]
      [] kind = "ok_point" ->
           [start |-> 15000, end |-> 37230040, text |-> <<"a", NL, "b">>]

WellFormed == {"ok", "ok_point"}
TooShortOrNoArrow == {"one_line", "two_lines", "no_arrow"}
BadTimecode == {"few_fields", "not_a_number"}
BlockKinds == WellFormed \cup TooShortOrNoArrow \cup BadTimecode
BlockLists == UNION {[1..n -> BlockKinds] : n \in 1..MaxBlocks}

\* the document: the blocks separated by a blank line, a newline at the end
Document(kinds) ==
    Join([i \in 1..Len(kinds) |-> Block(kinds[i])], BlankLine) \o <<NL>>

\* the numbers a caller hands to format_time: the time points and a time
\* before zero (-1.5 s)
Seconds == TimePoints \cup {-15000}

\* a caller that holds segments and writes them, or a file edited by hand,
\* or a caller of format_time alone
InitCodec ==
    /\ InitPipeline({})
    /\ \/ segments \in SegmentLists /\ edited = <<>> /\ cpc = "start"
       \/ segments = <<>> /\ edited \in BlockLists /\ cpc = "start"
       \/ segments = <<>> /\ edited = <<>> /\ cpc = "clock"
    /\ subtitles = Pending
    /\ timecode = NoTimecode
    /\ HttpOff

\* create_srt_file(transcription_result), srt_path left at its default
CreateSrtFile ==
    /\ cpc = "start" /\ edited = <<>>
    /\ files' = Write(default_srt_path, Srt(create_srt_file(segments)))
    /\ cpc' = "written"
    /\ UNCHANGED <<pipeline_vars, segments, edited, subtitles, timecode, http_vars>>

\* the hand-edited document is put at the path
EditSrtFile ==
    /\ cpc = "start" /\ edited # <<>>
    /\ files' = Write(default_srt_path, Srt(Document(edited)))
    /\ cpc' = "written"
    /\ UNCHANGED <<pipeline_vars, segments, edited, subtitles, timecode, http_vars>>

\* parse_srt_file(srt_path)
ParseSrtFile ==
    /\ cpc = "written"
    /\ subtitles' = parse_srt_file(files[default_srt_path].text)
    /\ cpc' = "parsed"
    /\ UNCHANGED <<files, pipeline_vars, segments, edited, timecode, http_vars>>

\* format_time(seconds): the body has no test of the sign and no raise, it
\* returns the string it formats
FormatTime ==
    /\ cpc = "clock"
    /\ \E seconds \in Seconds :
          timecode' = [seconds |-> seconds, exc |-> "none", value |-> format_time(seconds)]
    /\ cpc' = "formatted"
    /\ UNCHANGED <<files, pipeline_vars, segments, edited, subtitles, http_vars>>

NextCodec == CreateSrtFile \/ EditSrtFile \/ ParseSrtFile \/ FormatTime

SpecCodec == InitCodec /\ [][NextCodec]_vars

\* --------------------------------------------------------- the style
\* dict.get(key, default); None and {} are both the function of no key
Get(d, key, default) == IF key \in DOMAIN d THEN d[key] ELSE default

\* s[a:b] for 0 <= a <= b: cut at the end of s
Slice(s, a, b) ==
    LET hi == IF b < Len(s) THEN b ELSE Len(s)
    IN  IF a >= hi THEN <<>> ELSE SubSeq(s, a + 1, hi)

\* s.lstrip(c)
RECURSIVE LStrip(_, _)
LStrip(s, c) == IF s # <<>> /\ s[1] = c THEN LStrip(Tail(s), c) ELSE s

White == <<"#", "f", "f", "f", "f", "f", "f">>
Black == <<"#", "0", "0", "0", "0", "0", "0">>

\* a variant that keeps the channels in the order given
hex_to_ffmpeg_rgb(hex_color) ==
    IF hex_color = <<>> \/ hex_color[1] # "#"
    THEN <<"&", "H", "f", "f", "f", "f", "f", "f", "&">>
    ELSE <<"&", "H">> \o Slice(LStrip(hex_color, "#"), 0, 6) \o <<"&">>

\* hex_to_ffmpeg(hex_color): '#RRGGBB' to '&HBBGGRR&', white for a colour
\* that is empty or does not start with '#'
hex_to_ffmpeg(hex_color) ==
    IF hex_color = <<>> \/ hex_color[1] # "#"
    THEN <<"&", "H", "f", "f", "f", "f", "f", "f", "&">>
    ELSE LET hex == LStrip(hex_color, "#")
             r == Slice(hex, 0, 2)
             g == Slice(hex, 2, 4)
             b == Slice(hex, 4, 6)
         IN  <<"&", "H">> \o b \o g \o r \o <<"&">>

\* the keys of the force_style string
FontSize == <<"F", "o", "n", "t", "S", "i", "z", "e">>
PrimaryColour == <<"P", "r", "i", "m", "a", "r", "y", "C", "o", "l", "o", "u", "r">>
OutlineColour == <<"O", "u", "t", "l", "i", "n", "e", "C", "o", "l", "o", "u", "r">>
Outline == <<"O", "u", "t", "l", "i", "n", "e">>
MarginV == <<"M", "a", "r", "g", "i", "n", "V">>

\* style_str = "FontSize=24,PrimaryColour=&Hffffff&,OutlineColour=&H000000&,Outline=2"
DefaultStyle ==
    <<"F", "o", "n", "t", "S", "i", "z", "e", "=", "2", "4", ",", "P", "r", "i", "m", "a", "r", "y", "C", "o", "l", "o", "u", "r", "=", "&", "H", "f", "f", "f", "f", "f", "f", "&", ",">>
      \o <<"O", "u", "t", "l", "i", "n", "e", "C", "o", "l", "o", "u", "r", "=", "&", "H", "0", "0", "0", "0", "0", "0", "&", ",", "O", "u", "t", "l", "i", "n", "e", "=", "2">>

\* "key=value,key=value,..."
RECURSIVE StyleOf(_)
StyleOf(pairs) ==
    IF pairs = <<>> THEN <<>>
    ELSE pairs[1][1] \o <<"=">> \o pairs[1][2]
           \o (IF Len(pairs) = 1 THEN <<>> ELSE <<",">> \o StyleOf(Tail(pairs)))

\* style_str of add_subtitles_to_video_with_srt: the default string, or the
\* string built from style_config when it is not empty
style_str(style_config) ==
    IF DOMAIN style_config = {}
    THEN DefaultStyle
    ELSE LET font_size == Get(style_config, "fontSize", 24)
             primary_color == hex_to_ffmpeg(Get(style_config, "fontColor", White))
             outline_color == hex_to_ffmpeg(Get(style_config, "outlineColor", Black))
             outline_width == Get(style_config, "outlineWidth", 2)
             margin_v == Get(style_config, "marginV", 10)
         IN  StyleOf(<< <<FontSize, Decimal(font_size)>>,
                        <<PrimaryColour, primary_color>>,
                        <<OutlineColour, outline_color>>,
                        <<Outline, Decimal(outline_width)>>,
                        <<MarginV, Decimal(margin_v)>> >>)

\* ------------------------------------------------------ the HTTP layer
\* the keys a client may set, each to a value that is not its default
StyleKeys == {"fontSize", "fontColor", "outlineColor", "outlineWidth", "marginV"}
StyleValue(key) ==
    CASE key = "fontSize" -> 30
      [] key = "fontColor" -> <<"#", "1", "1", "2", "2", "3", "3">>
      [] key = "outlineColor" -> <<"#", "a", "a", "b", "b", "c", "c">>
      [] key = "outlineWidth" -> 3
      [] key = "marginV" -> 20
StyleConfigs == {[key \in K |-> StyleValue(key)] : K \in SUBSET StyleKeys}

\* srt_content, as the kinds of its blocks: up to MaxClips well-formed
\* blocks, or one block whose timecode cannot be decoded
SrtContents == UNION {[1..n -> WellFormed] : n \in 0..MaxClips} \cup {<<"few_fields">>}

TranscribeRequests ==
    {[op |-> "transcribe", filename |-> f, model |-> "base"] : f \in Filenames}
BurnRequests ==
    {[op |-> "burn", video_filename |-> "clip", srt_content |-> b, style_config |-> c] :
        b \in SrtContents, c \in StyleConfigs}
      \cup {[op |-> "burn", video_filename |-> "gone", srt_content |-> <<>>,
              style_config |-> <<>>]}

\* raise HTTPException(status_code=404, detail="Video not found")
NotFound == [status_code |-> 404, detail |-> {"Video not found"}]
\* except Exception as e: raise HTTPException(status_code=500, detail=str(e))
ServerError(e) == [status_code |-> 500, detail |-> e.diag]
\* a handler that returns
Returned(body) == [status_code |-> 200, body |-> body]

\* POST /api/transcribe, up to the name of the temporary audio: 404 when
\* the upload is not there, then SubtitleGenerator(whisper_model=model)
TranscribeVideo ==
    /\ hpc = "listening"
    /\ \E req \in TranscribeRequests :
          /\ request' = req
          /\ IF ~Exists(UploadDir(req.filename))
             THEN response' = NotFound /\ hpc' = "responded"
             ELSE \E outcome \in {"ok", "load_error"} :
                    /\ response' = IF outcome = "ok" THEN response
                                   ELSE ServerError(Exc("RuntimeError", {"model_load_error"}))
                    /\ hpc' = IF outcome = "ok" THEN "extract_audio" ELSE "responded"
    /\ UNCHANGED <<files, pipeline_vars, codec_vars, cmd, invoked, composite>>

\* generator.extract_audio(video_path, temp_audio); what it raises goes to
\* the handler's except
HttpExtractAudio ==
    /\ hpc = "extract_audio"
    /\ \E outcome \in {"ok", "no_audio", "write_error"} :
          /\ files' = CASE outcome = "ok" ->
                             Write(temp_audio, Audio(files[UploadDir(request.filename)].of))
                        [] outcome = "write_error" -> Write(temp_audio, Partial)
                        [] outcome = "no_audio" -> files
          /\ response' = CASE outcome = "ok" -> response
                           [] outcome = "write_error" ->
                                ServerError(Exc("OSError", {"extract_error"}))
                           [] outcome = "no_audio" ->
                                ServerError(Exc("AttributeError", {"extract_error"}))
          /\ hpc' = IF outcome = "ok" THEN "transcribe_audio" ELSE "responded"
    /\ UNCHANGED <<pipeline_vars, codec_vars, request, cmd, invoked, composite>>

\* generator.transcribe_audio(temp_audio), then the cleanup of the audio
\* and the return; what transcribe_audio raises goes to the handler's except
HttpTranscribeAudio ==
    /\ hpc = "transcribe_audio"
    /\ LET audio == files[temp_audio]
       IN  \E outcome \in {"ok", "failed"} :
             /\ outcome = "ok" => audio.kind = "audio"
             /\ files' = IF outcome = "ok" /\ Exists(temp_audio)
                         THEN Remove(temp_audio) ELSE files
             /\ response' = IF outcome = "ok" THEN Returned(Transcript(audio.of))
                            ELSE ServerError(Exc("RuntimeError", {"transcribe_error"}))
             /\ hpc' = "responded"
    /\ UNCHANGED <<pipeline_vars, codec_vars, request, cmd, invoked, composite>>

\* POST /api/burn, up to the call of the generator: 404 when the upload is
\* not there, then srt_content is written to OUTPUT_DIR/<uuid4>.srt
BurnSubtitles ==
    /\ hpc = "listening"
    /\ \E req \in BurnRequests :
          /\ request' = req
          /\ IF ~Exists(UploadDir(req.video_filename))
             THEN /\ response' = NotFound /\ hpc' = "responded"
                  /\ files' = files
             ELSE \E outcome \in {"ok", "io_error"} :
                    /\ files' = IF outcome = "ok"
                                THEN Write(OutputDirSrt, Srt(Document(req.srt_content)))
                                ELSE files
                    /\ response' = IF outcome = "ok" THEN response
                                   ELSE ServerError(Exc("OSError", {"srt_write_error"}))
                    /\ hpc' = IF outcome = "ok" THEN "with_srt" ELSE "responded"
    /\ UNCHANGED <<pipeline_vars, codec_vars, cmd, invoked, composite>>

\* a variant in which a non-zero exit falls back like a missing binary
with_srt_except_fallback(outcome) ==
    CASE outcome = "ok" -> "return"
      [] outcome = "exit" -> "fallback"
      [] outcome = "missing" -> "fallback"

\* the try of add_subtitles_to_video_with_srt: subprocess.run returns, or
\* except CalledProcessError raises anew, or except FileNotFoundError
\* returns what add_subtitles_to_video_moviepy returns
with_srt_except(outcome) ==
    CASE outcome = "ok" -> "return"
      [] outcome = "exit" -> "raise"
      [] outcome = "missing" -> "fallback"

\* the command line of add_subtitles_to_video_with_srt
FfmpegCmd(video_path, srt_path, output_path, style_config) ==
    [tool |-> "ffmpeg", input |-> video_path, subtitles |-> srt_path,
     force_style |-> style_str(style_config), output |-> output_path]

\* generator.add_subtitles_to_video_with_srt(video_path, srt_path,
\* output_path, style_config=request.style_config) up to the end of its
\* try: the tool burns the file, exits non-zero or is not installed.  When
\* it returns the handler removes the SRT and returns; what it raises goes
\* to the handler's except.
HttpBurnPrimary ==
    /\ hpc = "with_srt"
    /\ LET video_path == UploadDir(request.video_filename)
           output_path == OutputDirFinal(request.video_filename)
           srt == files[OutputDirSrt]
       IN  \E outcome \in {"ok", "exit", "missing"} :
             LET then == with_srt_except(outcome)
             IN  /\ cmd' = FfmpegCmd(video_path, OutputDirSrt, output_path,
                                     request.style_config)
                 /\ invoked' = Append(invoked, [strategy |-> "ffmpeg", outcome |-> outcome])
                 /\ files' = IF then = "return"
                             THEN [files EXCEPT
                                     ![output_path] = Subtitled(files[video_path].of,
                                                                srt.text, "ffmpeg"),
                                     ![OutputDirSrt] = NoFile]
                             ELSE files
                 /\ response' = CASE then = "return" -> Returned(output_path)
                                  [] then = "raise" ->
                                       ServerError(Exc("Exception", {"ffmpeg_stderr"}))
                                  [] then = "fallback" -> response
                 /\ hpc' = IF then = "fallback" THEN "moviepy" ELSE "responded"
    /\ UNCHANGED <<pipeline_vars, codec_vars, request, composite>>

\* what TextClip does for one subtitle: the 'label' clip is made, or it
\* raises and the plain clip is made, or both raise
ClipOutcomes == {"label", "plain", "none"}
NoClip == [made |-> "none"]

\* create_subtitle_clip(text, start, end, video_size)
create_subtitle_clip(text, start, end, outcome) ==
    CASE outcome = "label" ->
           [made |-> "label", text |-> text, start |-> start, end |-> end,
            position |-> "center, height - 100"]
      [] outcome = "plain" ->
           [made |-> "plain", text |-> text, start |-> start, end |-> end,
            position |-> "center, bottom"]
      [] outcome = "none" -> NoClip

\* a variant in which the first clip that cannot be made ends the loop
RECURSIVE subtitle_clips_aborting(_, _, _)
subtitle_clips_aborting(subs, built, i) ==
    IF i > Len(subs) THEN <<>>
    ELSE LET subtitle == subs[i]
             subtitle_clip ==
                 create_subtitle_clip(subtitle.text, subtitle.start, subtitle.end, built[i])
         IN  IF subtitle_clip = NoClip THEN <<>>
             ELSE <<subtitle_clip>> \o subtitle_clips_aborting(subs, built, i + 1)

\* the loop of add_subtitles_to_video_moviepy from the i-th subtitle on: a
\* clip is asked for when the text is not empty and appended when made
RECURSIVE subtitle_clips(_, _, _)
subtitle_clips(subs, built, i) ==
    IF i > Len(subs) THEN <<>>
    ELSE LET subtitle == subs[i]
             subtitle_clip ==
                 IF subtitle.text # <<>>
                 THEN create_subtitle_clip(subtitle.text, subtitle.start, subtitle.end,
                                           built[i])
                 ELSE NoClip
         IN  (IF subtitle_clip # NoClip THEN <<subtitle_clip>> ELSE <<>>)
               \o subtitle_clips(subs, built, i + 1)

\* CompositeVideoClip([video] + subtitle_clips), or the video alone, written
Rendered(name, layers) == [kind |-> "subtitled", of |-> name, layers |-> layers, by |-> "moviepy"]

\* add_subtitles_to_video_moviepy(video_path, srt_path, output_path) called
\* by except FileNotFoundError: parse, make the clips, render.  When it
\* returns the handler removes the SRT and returns; what it raises goes to
\* the handler's except.
HttpBurnFallback ==
    /\ hpc = "moviepy"
    /\ LET video_path == UploadDir(request.video_filename)
           output_path == OutputDirFinal(request.video_filename)
           parsed == parse_srt_file(files[OutputDirSrt].text)
       IN  IF parsed.exc # "none"
           THEN /\ invoked' = Append(invoked, [strategy |-> "moviepy", outcome |-> "failed"])
                /\ response' = ServerError(Exc(parsed.exc, {"timecode"}))
                /\ UNCHANGED <<files, composite>>
           ELSE \E built \in [1..Len(parsed.subtitles) -> ClipOutcomes],
                   outcome \in {"ok", "failed"} :
                  LET layers == subtitle_clips(parsed.subtitles, built, 1)
                  IN  /\ composite' = [subtitles |-> parsed.subtitles, built |-> built,
                                        layers |-> layers]
                      /\ invoked' = Append(invoked,
                                           [strategy |-> "moviepy", outcome |-> outcome])
                      /\ files' = IF outcome = "ok"
                                  THEN [files EXCEPT
                                          ![output_path] = Rendered(files[video_path].of, layers),
                                          ![OutputDirSrt] = NoFile]
                                  ELSE Write(output_path, Partial)
                      /\ response' = IF outcome = "ok" THEN Returned(output_path)
                                     ELSE ServerError(Exc("OSError", {"render_error"}))
    /\ hpc' = "responded"
    /\ UNCHANGED <<pipeline_vars, codec_vars, request, cmd>>

\* the server with one upload, waiting for a request
InitHttp ==
    /\ InitPipeline({})
    /\ segments = <<>> /\ edited = <<>> /\ subtitles = Pending /\ cpc = "off"
    /\ timecode = NoTimecode
    /\ request = NoRequest /\ hpc = "listening" /\ cmd = NoCmd
    /\ invoked = <<>> /\ composite = NoComposite /\ response = NoResponse

NextHttp ==
    \/ TranscribeVideo
    \/ HttpExtractAudio
    \/ HttpTranscribeAudio
    \/ BurnSubtitles
    \/ HttpBurnPrimary
    \/ HttpBurnFallback

SpecHttp == InitHttp /\ [][NextHttp]_vars

\* =============================================================== claims
\* the strategies of this burn are over: its finally runs, or it has left
BurnOver(p) == pc[p] \in {"burn_finally", "finally", "returned", "raised"}
PrimaryFailed(p) == attempts[p] # <<>> /\ attempts[p][1].outcome # "ok"
LastAttempt(p) == attempts[p][Len(attempts[p])]

\* C1: in add_subtitles_to_video, when the external tool fails (missing
\* binary or non-zero exit) the in-process fallback is attempted before the
\* burn returns or raises, and the burn raises only if the fallback failed.
C1_FallbackBeforeBurnEnds ==
    \A p \in Procs :
        (BurnOver(p) /\ PrimaryFailed(p)) =>
            /\ attempts[p][1].strategy = "ffmpeg"
            /\ Len(attempts[p]) >= 2
            /\ attempts[p][2].strategy = "moviepy"
            /\ exc[p] # NoExc =>
                  (LastAttempt(p).strategy = "moviepy" /\ LastAttempt(p).outcome = "failed")

\* the tool exited non-zero, the fallback rendered, and the call returned
C1_Witness ==
    \E p \in Procs :
        /\ pc[p] = "returned"
        /\ Len(attempts[p]) = 2
        /\ attempts[p][1].outcome = "exit"
        /\ attempts[p][2].strategy = "moviepy" /\ attempts[p][2].outcome = "ok"

PrimaryDiagnostic(outcome) ==
    IF outcome = "exit" THEN "ffmpeg_stderr" ELSE "ffmpeg_not_found"

\* C2: when the primary and the fallback both fail in one burn, the error
\* that reaches the caller of the burn carries the primary's diagnostic and
\* the fallback's message.
C2_ErrorCarriesBothMessages ==
    \A p \in Procs :
        (BurnOver(p) /\ PrimaryFailed(p) /\ exc[p] # NoExc) =>
            {PrimaryDiagnostic(attempts[p][1].outcome), "moviepy_error"}
                \subseteq exc[p][1].diag

\* C3: the steps of generate_subtitles are invoked in the order extract,
\* transcribe, serialize, burn, each only after every earlier one returned;
\* after a step that failed no step is invoked and the call raises.
C3_StepsInOrderStopAtFailure ==
    \A p \in Procs :
        LET l == log[p]
        IN  /\ Len(l) <= Len(StepOrder)
            /\ \A i \in 1..Len(l) :
                  /\ l[i].step = StepOrder[i]
                  /\ i < Len(l) => l[i].ok
            /\ (l # <<>> /\ ~l[Len(l)].ok) =>
                  (pc[p] \in {"finally", "raised"} /\ exc[p] # NoExc)
            /\ pc[p] = "returned" => (Len(l) = Len(StepOrder) /\ l[Len(l)].ok)
            /\ pc[p] = "raised" => (l # <<>> /\ ~l[Len(l)].ok)

\* extraction failed: transcription was never invoked, and the call raised
C3_Witness ==
    \E p \in Procs :
        pc[p] = "raised" /\ log[p] = <<[step |-> "extract", ok |-> FALSE]>>

Left(p) == pc[p] \in {"returned", "raised"}

\* C4 as claimed: whenever a call of generate_subtitles has returned or
\* raised, temp_audio.wav does not exist.
C4_TempAudioGoneOnEveryExit ==
    \A p \in Procs : Left(p) => ~Exists(temp_audio_path)

\* C4, amended: whenever a call of generate_subtitles with cleanup_temp true
\* (the default) has returned or raised, temp_audio.wav does not exist.
C4_TempAudioGoneWhenCleanup ==
    \A p \in Procs : (Left(p) /\ call[p].cleanup_temp) => ~Exists(temp_audio_path)

\* the audio was extracted, a later step raised, and the file is gone
C4_Witness ==
    \E p \in Procs :
        /\ pc[p] = "raised" /\ call[p].cleanup_temp
        /\ log[p] # <<>> /\ log[p][1].ok
        /\ ~Exists(temp_audio_path)

\* C5: after generate_subtitles returned, the subtitle document exists at
\* output_srt_path and the video at output_video_path, whatever the paths.
C5_DeliverablesExistAfterSuccess ==
    \A p \in Procs :
        pc[p] = "returned" =>
            /\ files[call[p].output_srt_path].kind = "srt"
            /\ files[call[p].output_video_path].kind = "subtitled"

\* C6: a renderer that burned the subtitles read the file at the requested
\* output_srt_path, and what it read is the text saved there.
C6_RendererReadsSavedDocument ==
    \A p \in Procs :
        \A i \in 1..Len(attempts[p]) :
            attempts[p][i].outcome = "ok" =>
                /\ attempts[p][i].srt_path = call[p].output_srt_path
                /\ pc[p] = "burn_finally" =>
                      attempts[p][i].read = files[call[p].output_srt_path]

OwnVideo(p) == base_name(call[p].video_path)

\* C7: of two calls running side by side, each transcribes the audio of its
\* own video and burns the subtitles of its own transcript.
C7_InvocationsDoNotInterfere ==
    \A p \in Procs :
        /\ transcription_result[p] # NoResult =>
              transcription_result[p].of = OwnVideo(p)
        /\ \A i \in 1..Len(attempts[p]) :
              attempts[p][i].outcome = "ok" =>
                  attempts[p][i].read = Srt(create_srt_file(Transcript(OwnVideo(p))))

SameMillisecond(a, b) == a \div TicksPerMs = b \div TicksPerMs
RoundTripDone == cpc = "parsed" /\ edited = <<>>

\* C8 as claimed: parse_srt_file(create_srt_file(segments)) has as many
\* elements as segments, the i-th with the same start and end to the
\* millisecond and the same text.
C8_RoundTripKeepsText ==
    RoundTripDone =>
        /\ subtitles.exc = "none"
        /\ Len(subtitles.subtitles) = Len(segments)
        /\ \A i \in 1..Len(segments) :
              /\ SameMillisecond(subtitles.subtitles[i].start, segments[i].start)
              /\ SameMillisecond(subtitles.subtitles[i].end, segments[i].end)
              /\ subtitles.subtitles[i].text = segments[i].text

\* a text the format can hold: something is left of it once stripped, and
\* no line of it is empty
Survives(text) == Strip(text) # <<>> /\ ~Contains(Strip(text), BlankLine)
Truncated(t) == (t \div TicksPerMs) * TicksPerMs

\* C8, amended: when every text, stripped of the whitespace around it, is
\* not empty and has no empty line, the round trip has as many elements as
\* segments, the i-th with start and end truncated to the millisecond and
\* the stripped text.
C8_RoundTripKeepsStrippedText ==
    (RoundTripDone /\ \A i \in 1..Len(segments) : Survives(segments[i].text)) =>
        /\ subtitles.exc = "none"
        /\ Len(subtitles.subtitles) = Len(segments)
        /\ \A i \in 1..Len(segments) :
              /\ subtitles.subtitles[i].start = Truncated(segments[i].start)
              /\ subtitles.subtitles[i].end = Truncated(segments[i].end)
              /\ subtitles.subtitles[i].text = Strip(segments[i].text)

\* two segments, one of two lines, one ending on a fraction of a millisecond
C8_Witness ==
    /\ RoundTripDone
    /\ Len(segments) = 2
    /\ \A i \in 1..2 : Survives(segments[i].text)
    /\ Contains(segments[1].text, <<NL>>)
    /\ segments[2].end = 37230045
    /\ Len(subtitles.subtitles) = 2

ExpectedBlock(i) ==
    Decimal(i) \o <<NL>>
      \o format_time(segments[i].start) \o Arrow \o format_time(segments[i].end) \o <<NL>>
      \o Strip(segments[i].text) \o <<NL, NL>>
RECURSIVE ExpectedBlocks(_)
ExpectedBlocks(n) == IF n = 0 THEN <<>> ELSE ExpectedBlocks(n - 1) \o ExpectedBlock(n)

\* C9: the file create_srt_file writes is one block per segment in input
\* order, the i-th being the line i, the line of the two encoded times
\* around ' --> ', the segment's text (as emitted: stripped) and a blank
\* line, whatever the order of the start times.
C9_OneBlockPerSegmentInOrder ==
    (cpc \in {"written", "parsed"} /\ edited = <<>>) =>
        files[default_srt_path] = Srt(ExpectedBlocks(Len(segments)))

\* two segments listed against their start times
C9_Witness ==
    /\ cpc = "written" /\ edited = <<>>
    /\ Len(segments) = 2
    /\ segments[1].start > segments[2].start

IsWellFormed(kind) == kind \in WellFormed
Meanings(kinds) == [i \in 1..Len(kinds) |-> Meaning(kinds[i])]

\* C10: on a document whose blocks are well formed, shorter than 3 lines or
\* without ' --> ' in the second line, parse_srt_file does not raise and
\* returns exactly the well-formed blocks, in document order.
C10_ShortAndArrowlessBlocksSkipped ==
    (/\ cpc = "parsed" /\ edited # <<>>
     /\ \A i \in 1..Len(edited) : edited[i] \in WellFormed \cup TooShortOrNoArrow) =>
        subtitles = [exc |-> "none",
                     subtitles |-> Meanings(SelectSeq(edited, IsWellFormed))]

\* a block without the separator between two well-formed blocks
C10_Witness ==
    /\ cpc = "parsed"
    /\ edited = <<"ok", "no_arrow", "ok_point">>
    /\ Len(subtitles.subtitles) = 2

\* C11: on a document whose blocks are well formed or carry ' --> ' next to
\* a timecode that cannot be decoded (too few fields, a field that is not a
\* number), parse_srt_file does not raise and returns exactly the
\* well-formed blocks, in document order.
C11_BadTimecodeBlocksSkipped ==
    (/\ cpc = "parsed" /\ edited # <<>>
     /\ \A i \in 1..Len(edited) : edited[i] \in WellFormed \cup BadTimecode) =>
        subtitles = [exc |-> "none",
                     subtitles |-> Meanings(SelectSeq(edited, IsWellFormed))]

\* C12: format_time rejects every negative input: it signals an error and
\* returns no timecode.
C12_NegativeInputRejected ==
    (cpc = "formatted" /\ timecode.seconds < 0) =>
        /\ timecode.exc # "none"
        /\ timecode.value = <<>>

\* the value the style string gives to a key, <<>> when the key is not in it
FieldOf(style, key) ==
    LET fields == Split(style, <<",">>)
        hits == {i \in 1..Len(fields) : Slice(fields[i], 0, Len(key) + 1) = key \o <<"=">>}
    IN  IF hits = {} THEN <<>>
        ELSE LET field == fields[CHOOSE i \in hits : TRUE]
             IN  Slice(field, Len(key) + 1, Len(field))

IsHexColour(colour) == Len(colour) = 7 /\ colour[1] = "#"
\* BBGGRR of #RRGGBB
Reversed(colour) ==
    <<colour[6], colour[7], colour[4], colour[5], colour[2], colour[3]>>
Given(key) == key \in DOMAIN request.style_config
CarriesReversed(key, field) ==
    (Given(key) /\ IsHexColour(request.style_config[key])) =>
        FieldOf(cmd.force_style, field)
          = <<"&", "H">> \o Reversed(request.style_config[key]) \o <<"&">>

\* C13: a colour #RRGGBB given as fontColor or outlineColor is in the style
\* string of the command line with its channels reversed, BBGGRR (#112233
\* as 332211), each of the two keys whatever the other is.
C13_ColoursChannelReversed ==
    cmd # NoCmd =>
        /\ CarriesReversed("fontColor", PrimaryColour)
        /\ CarriesReversed("outlineColor", OutlineColour)
        /\ (Given("fontColor") /\ request.style_config["fontColor"] = <<"#", "1", "1", "2", "2", "3", "3">>) =>
              FieldOf(cmd.force_style, PrimaryColour) = <<"&", "H", "3", "3", "2", "2", "1", "1", "&">>

\* both colours given; only one of them given
C13_Witness ==
    /\ cmd # NoCmd
    /\ Given("fontColor") /\ ~Given("outlineColor")
    /\ FieldOf(cmd.force_style, PrimaryColour) = <<"&", "H", "3", "3", "2", "2", "1", "1", "&">>
    /\ FieldOf(cmd.force_style, OutlineColour) = <<"&", "H", "0", "0", "0", "0", "0", "0", "&">>

\* the key of the style string a key of style_config sets, and the value
\* stated as its default
FfmpegKey(key) ==
    CASE key = "fontSize" -> FontSize
      [] key = "fontColor" -> PrimaryColour
      [] key = "outlineColor" -> OutlineColour
      [] key = "outlineWidth" -> Outline
      [] key = "marginV" -> MarginV
StatedDefault(key) ==
    CASE key = "fontSize" -> <<"2", "4">>
      [] key = "fontColor" -> <<"&", "H", "f", "f", "f", "f", "f", "f", "&">>
      [] key = "outlineColor" -> <<"&", "H", "0", "0", "0", "0", "0", "0", "&">>
      [] key = "outlineWidth" -> <<"2">>
      [] key = "marginV" -> <<"1", "0">>

\* C14: whatever keys style_config has, none included, every key it does
\* not have is in the style string of the command line with its default:
\* fontSize 24, fontColor white, outlineColor black, outlineWidth 2,
\* marginV 10.
C14_UnspecifiedKeysTakeDefaults ==
    cmd # NoCmd =>
        \A key \in StyleKeys :
            ~Given(key) => FieldOf(cmd.force_style, FfmpegKey(key)) = StatedDefault(key)

\* C15: in add_subtitles_to_video_with_srt a non-zero exit of the tool
\* reaches the caller as an error that holds the tool's diagnostic output,
\* and no fallback is invoked; a missing binary invokes the fallback.
C15_ExitSurfacedMissingFallsBack ==
    invoked # <<>> =>
        /\ invoked[1].strategy = "ffmpeg"
        /\ invoked[1].outcome = "exit" =>
              /\ Len(invoked) = 1
              /\ hpc = "responded"
              /\ response.status_code = 500
              /\ "ffmpeg_stderr" \in response.detail
        /\ invoked[1].outcome = "missing" =>
              \/ hpc = "moviepy"
              \/ Len(invoked) = 2 /\ invoked[2].strategy = "moviepy"

\* the tool has exited non-zero and the handler has answered
C15_Witness ==
    /\ invoked # <<>>
    /\ invoked[1].outcome = "exit"
    /\ hpc = "responded"

Tried(p, strategy) ==
    Cardinality({i \in 1..Len(attempts[p]) : attempts[p][i].strategy = strategy})

\* C16: within one burn the primary strategy is attempted exactly once and
\* the fallback at most once, and only after the primary failed, whatever
\* the outcomes of the two.
C16_NothingRetried ==
    \A p \in Procs :
        attempts[p] # <<>> =>
            /\ attempts[p][1].strategy = "ffmpeg"
            /\ Tried(p, "ffmpeg") = 1
            /\ Tried(p, "moviepy") <= 1
            /\ Tried(p, "moviepy") = 1 => attempts[p][1].outcome # "ok"

\* the subtitles whose clip was made, and the j-th of them in document order
Made(built) == {i \in DOMAIN built : built[i] # "none"}
Nth(S, j) == CHOOSE i \in S : Cardinality({k \in S : k < i}) = j - 1
FallbackRendered ==
    /\ hpc = "responded"
    /\ Len(invoked) = 2 /\ invoked[2].strategy = "moviepy"
    /\ \A i \in 1..Len(request.srt_content) : request.srt_content[i] \in WellFormed

\* C17: in add_subtitles_to_video_moviepy a subtitle whose clip cannot be
\* made is left out and nothing is aborted: the composite holds exactly the
\* clips of the parsed subtitles that could be made, in document order, and
\* when the video is written the output path is returned, even if no clip
\* could be made.
C17_FailedOverlaysDropped ==
    FallbackRendered =>
        LET said == Meanings(request.srt_content)
            made == Made(composite.built)
            layers == composite.layers
        IN  /\ DOMAIN composite.built = 1..Len(said)
            /\ Len(layers) = Cardinality(made)
            /\ \A j \in 1..Len(layers) :
                  /\ layers[j].made = composite.built[Nth(made, j)]
                  /\ layers[j].text = said[Nth(made, j)].text
                  /\ layers[j].start = said[Nth(made, j)].start
                  /\ layers[j].end = said[Nth(made, j)].end
            /\ response.status_code = 500 => response.detail = {"render_error"}
            /\ invoked[2].outcome = "ok" =>
                  /\ response = Returned(OutputDirFinal(request.video_filename))
                  /\ files[OutputDirFinal(request.video_filename)].kind = "subtitled"
                  /\ files[OutputDirFinal(request.video_filename)].layers = layers

\* two subtitles, no clip could be made, the video is written all the same
C17_Witness ==
    /\ FallbackRendered
    /\ Len(request.srt_content) = 2
    /\ Made(composite.built) = {}
    /\ response = Returned(OutputDirFinal(request.video_filename))

\* C18: when POST /api/transcribe has answered, whatever the answer, the
\* temporary audio it made is not there, and when POST /api/burn has
\* answered, the temporary SRT it wrote is not there.
C18_NoTransientFileLeft ==
    hpc = "responded" => (~Exists(temp_audio) /\ ~Exists(OutputDirSrt))

====
